---- MODULE Spec2Model ----
(***************************************************************************)
(* Model of the diagnostic advisor of sistema-experto-soporte:             *)
(*   - motor_reglas (src/experto_soporte/engine.py): the if/elif rule      *)
(*     ladder from a symptom vector to a diagnosis;                        *)
(*   - buscar_patrones, diagnosticar_problema, registrar_feedback          *)
(*     (src/main.py): the session history and the pattern alert.           *)
(* The handlers are `async def` bodies without any await, so each request  *)
(* runs to completion on the event loop: one action per handler.           *)
(* Not modelled: the timestamp of a session, the UI labels of the active   *)
(* symptoms, the flat-file problem reports and the admin read endpoints.   *)
(* uuid4 session ids are modelled as fresh numbers (position at creation). *)
(* en_curso holds the feedback requests the server has accepted but not    *)
(* run yet; it is used by SpecConcurrente and stays empty otherwise.       *)
(***************************************************************************)
EXTENDS Naturals, Sequences, FiniteSets, TLC

VARIABLES historial_sesiones, peticion, respuesta, en_curso

vars == <<historial_sesiones, peticion, respuesta, en_curso>>

(* ------------------------------ bounds -------------------------------- *)

\* Sessions created in a behaviour of Spec.
MaxSesiones == 4

\* Sessions created in a behaviour of SpecEntradas (all 32 vectors as input).
MaxSesionesEntradas == 1

\* Sessions created in a behaviour of SpecConcurrente.
MaxSesionesConcurrente == 2

\* Feedback requests accepted by the server in a behaviour of SpecConcurrente.
MaxEnCurso == 3

(* --------------------------- symptom vectors -------------------------- *)

\* Field order of the pydantic model, which is the key order of model_dump().
Campos ==
  << "app_lenta_o_congela", "app_cierra_inesperadamente",
     "instalacion_o_actualizacion_fallida", "pantalla_azul_o_negra_reciente",
     "periferico_no_detectado" >>

CamposSet == { Campos[i] : i \in 1..Len(Campos) }

\* Every structurally valid symptom vector (32 of them).
Sintomas == [ CamposSet -> BOOLEAN ]

\* The vector whose true flags are exactly the set S.
Vector(S) == [ k \in CamposSet |-> k \in S ]

(* ------------------------------ strings ------------------------------- *)
\* Outcome strings are sequences of characters, so that str.upper() is
\* computed character by character.

PENDIENTE == << "P", "E", "N", "D", "I", "E", "N", "T", "E" >>
EXITOSO   == << "E", "X", "I", "T", "O", "S", "O" >>
FALLIDO   == << "F", "A", "L", "L", "I", "D", "O" >>

upper_char(c) ==
  CASE c = "a" -> "A" [] c = "d" -> "D" [] c = "e" -> "E" [] c = "f" -> "F"
    [] c = "i" -> "I" [] c = "l" -> "L" [] c = "n" -> "N" [] c = "o" -> "O"
    [] c = "p" -> "P" [] c = "r" -> "R" [] c = "s" -> "S" [] c = "t" -> "T"
    [] c = "x" -> "X"
    [] OTHER -> c

upper(s) == [ i \in 1..Len(s) |-> upper_char(s[i]) ]

\* A recommendation line is a sequence of tokens; startswith compares the
\* leading tokens.
startswith(linea, prefijo) ==
  /\ Len(linea) >= Len(prefijo)
  /\ SubSeq(linea, 1, Len(prefijo)) = prefijo

PrefijoDiagnostico == << "Diagnóstico", ":" >>

(* ----------------------------- rule engine ---------------------------- *)

Resultado(diag, just, recs) ==
  [ diagnostico_principal |-> diag,
    justificacion_regla |-> just,
    detalles_recomendaciones |-> recs ]

\* The conditions of the if/elif ladder, in source order.
condicion_regla_1(sintomas) ==
  sintomas.pantalla_azul_o_negra_reciente
    /\ (sintomas.app_cierra_inesperadamente
          \/ sintomas.instalacion_o_actualizacion_fallida)

\* Variant: rule 2 without the app-crash alternative.
condicion_regla_2_sin_cierre(sintomas) ==
  sintomas.app_lenta_o_congela /\ sintomas.instalacion_o_actualizacion_fallida

condicion_regla_2(sintomas) ==
  (sintomas.app_lenta_o_congela \/ sintomas.app_cierra_inesperadamente)
    /\ sintomas.instalacion_o_actualizacion_fallida

condicion_regla_3(sintomas) == sintomas.app_cierra_inesperadamente

condicion_regla_4(sintomas) == sintomas.instalacion_o_actualizacion_fallida

condicion_regla_5(sintomas) == sintomas.app_lenta_o_congela

condicion_regla_6(sintomas) == sintomas.periferico_no_detectado

motor_reglas(sintomas) ==
  IF condicion_regla_1(sintomas)
  THEN Resultado("CORRUPCION_SISTEMA_CRITICA",
         "Detección de BSOD/Bloqueo Crítico junto con fallos de software.",
         << << "Diagnóstico", " CRÍTICO", ":", " El problema es de nivel Sistema Operativo/Drivers." >>,
            << "Reiniciar en Modo Seguro y ejecutar la 'Reparación de Inicio'." >>,
            << "Si falla, considere una reinstalación limpia del sistema operativo." >> >>)
  ELSE IF condicion_regla_2(sintomas)
  THEN Resultado("CONFLICTO_DE_SOFTWARE_O_LIBRERIAS",
         "Una aplicación está fallando tras un intento de instalación o actualización.",
         << << "Diagnóstico", ":", " Conflicto de software o falta de recursos tras un cambio reciente." >>,
            << "Revertir o desinstalar la última aplicación instalada." >>,
            << "Utilizar la herramienta 'msconfig'." >> >>)
  ELSE IF condicion_regla_3(sintomas)
  THEN Resultado("REINSTALAR_APLICACION_LIMPIANDO_CACHE",
         "El cierre inesperado de una aplicación sin evidencia de fallos del sistema.",
         << << "Diagnóstico", ":", " La aplicación está corrupta, obsoleta o tiene un error de memoria." >>,
            << "Reinstalar la aplicación limpiando el caché." >>,
            << "Verificar los requisitos mínimos de RAM/CPU." >> >>)
  ELSE IF condicion_regla_4(sintomas)
  THEN Resultado("REINTENTAR_COMO_ADMINISTRADOR",
         "El proceso de instalación falló solo.",
         << << "Diagnóstico", ":", " Problemas de permisos o pre-requisitos." >>,
            << "Intentar la instalación nuevamente ejecutando el archivo como 'Administrador'." >>,
            << "Desactivar temporalmente el antivirus o firewall antes de reintentar." >>,
            << "Instalar manualmente los pre-requisitos de software comunes." >> >>)
  ELSE IF condicion_regla_5(sintomas)
  THEN Resultado("FINALIZAR_TAREA_Y_REINICIAR_APP",
         "La lentitud o congelación es el síntoma más común de FUGA DE MEMORIA.",
         << << "Diagnóstico", ":", " Sobrecarga temporal de recursos o fuga de memoria." >>,
            << "Cerrar la aplicación con el Administrador de Tareas." >>,
            << "Revisar el Administrador de Tareas." >> >>)
  ELSE IF condicion_regla_6(sintomas)
  THEN Resultado("ACTUALIZAR_DRIVER_O_PUERTO",
         "Un periférico no detectado es un problema directo de DRIVERS.",
         << << "Diagnóstico", ":", " Problema de detección de hardware o falta de drivers." >>,
            << "Desconectar y reconectar el periférico en otro puerto USB." >>,
            << "Ir al Administrador de Dispositivos y 'Actualizar Controlador'." >> >>)
  ELSE Resultado("REINICIAR_SISTEMA_SIMPLE",
         "No se reportaron síntomas específicos.",
         << << "No se detectaron síntomas específicos." >> >>)

(* --------------------------- pattern tracker -------------------------- *)

\* Alphabetical rank of the field names, the order sorted() puts them in.
RangoAlfabetico ==
  [ k \in CamposSet |->
      CASE k = "app_cierra_inesperadamente" -> 1
        [] k = "app_lenta_o_congela" -> 2
        [] k = "instalacion_o_actualizacion_fallida" -> 3
        [] k = "pantalla_azul_o_negra_reciente" -> 4
        [] k = "periferico_no_detectado" -> 5 ]

sorted(lista) == SortSeq(lista, LAMBDA a, b : RangoAlfabetico[a] < RangoAlfabetico[b])

\* [k for k, v in d.items() if v]
sintomas_activos(d) == SelectSeq(Campos, LAMBDA k : d[k])

\* Variant: the session's active flags only have to be among the query's.
sintomas_identicos_subconjunto(sesion_sintomas, sintomas) ==
  \A i \in 1..Len(sintomas_activos(sesion_sintomas)) :
    \E j \in 1..Len(sintomas_activos(sintomas)) :
      sintomas_activos(sesion_sintomas)[i] = sintomas_activos(sintomas)[j]

\* if sorted(sesion_sintomas_activos) == sorted(sintomas_activos)
sintomas_identicos(sesion_sintomas, sintomas) ==
  sorted(sintomas_activos(sesion_sintomas)) = sorted(sintomas_activos(sintomas))

\* Variant: the scan compares the suggested (possibly escalated) diagnosis.
diagnostico_registrado_sugerido(sesion) == sesion.diagnostico_sugerido

\* sesion.get('diagnostico_original'): the stored diagnosis the scan compares.
diagnostico_registrado(sesion) == sesion.diagnostico_original

\* The condition under which a session of the history increments the counter.
cuenta_como_falla(sesion, sintomas, diagnostico_principal) ==
  /\ "sintomas" \in DOMAIN sesion
  /\ sintomas_identicos(sesion.sintomas, sintomas)
  /\ diagnostico_registrado(sesion) = diagnostico_principal
  /\ sesion.resultado = FALLIDO

RECURSIVE contar_patrones(_, _, _)
contar_patrones(historial, sintomas, diagnostico_principal) ==
  IF historial = << >> THEN 0
  ELSE contar_patrones(Tail(historial), sintomas, diagnostico_principal)
         + (IF cuenta_como_falla(Head(historial), sintomas, diagnostico_principal)
              THEN 1 ELSE 0)

\* if patrones_de_falla >= 2
umbral_alerta == 2

\* Variant: the alert needs more than umbral_alerta failures.
buscar_patrones_estricto(historial, sintomas, diagnostico_principal) ==
  LET patrones_de_falla == contar_patrones(historial, sintomas, diagnostico_principal)
  IN  IF patrones_de_falla > umbral_alerta
        THEN [ alerta_activa |-> TRUE, conteo |-> patrones_de_falla ]
        ELSE [ alerta_activa |-> FALSE, conteo |-> 0 ]

\* Variant: below the threshold the alert reports the counter, not 0.
buscar_patrones_conteo_real(historial, sintomas, diagnostico_principal) ==
  LET patrones_de_falla == contar_patrones(historial, sintomas, diagnostico_principal)
  IN  IF patrones_de_falla >= umbral_alerta
        THEN [ alerta_activa |-> TRUE, conteo |-> patrones_de_falla ]
        ELSE [ alerta_activa |-> FALSE, conteo |-> patrones_de_falla ]

\* Variant: the alert reports the threshold instead of the counter.
buscar_patrones_conteo_umbral(historial, sintomas, diagnostico_principal) ==
  LET patrones_de_falla == contar_patrones(historial, sintomas, diagnostico_principal)
  IN  IF patrones_de_falla >= umbral_alerta
        THEN [ alerta_activa |-> TRUE, conteo |-> umbral_alerta ]
        ELSE [ alerta_activa |-> FALSE, conteo |-> 0 ]

buscar_patrones(historial, sintomas, diagnostico_principal) ==
  LET patrones_de_falla == contar_patrones(historial, sintomas, diagnostico_principal)
  IN  IF patrones_de_falla >= umbral_alerta
        THEN [ alerta_activa |-> TRUE, conteo |-> patrones_de_falla ]
        ELSE [ alerta_activa |-> FALSE, conteo |-> 0 ]

(* ------------------------------ handlers ------------------------------ *)

MensajeEscalamiento == << << "Contactarse con un técnico especializado" >> >>

\* Variant: the first element is dropped whatever it is.
filtrar_recomendaciones_siempre(recomendaciones_reglas) ==
  IF recomendaciones_reglas # << >>
    THEN Tail(recomendaciones_reglas)
    ELSE recomendaciones_reglas

\* The rule engine's steps without a leading "Diagnóstico:" line.
filtrar_recomendaciones(recomendaciones_reglas) ==
  IF recomendaciones_reglas # << >>
       /\ startswith(recomendaciones_reglas[1], PrefijoDiagnostico)
    THEN Tail(recomendaciones_reglas)
    ELSE recomendaciones_reglas

\* Variant: the session stores the final (possibly escalated) diagnosis.
diagnostico_a_guardar_final(diagnostico_original, diagnostico_accion_final) ==
  diagnostico_accion_final

\* What the handler stores as the session's 'diagnostico_original'.
diagnostico_a_guardar(diagnostico_original, diagnostico_accion_final) ==
  diagnostico_original

diagnosticar_problema(sintomas) ==
  LET resultado_reglas == motor_reglas(sintomas)
      diagnostico_original == resultado_reglas.diagnostico_principal
      recomendaciones_reglas == resultado_reglas.detalles_recomendaciones
      alerta_ia_data == buscar_patrones(historial_sesiones, sintomas, diagnostico_original)
      ia_activa == alerta_ia_data.alerta_activa
      recomendaciones_finales ==
        IF ia_activa THEN MensajeEscalamiento
                     ELSE filtrar_recomendaciones(recomendaciones_reglas)
      diagnostico_accion_final ==
        IF ia_activa THEN "CONSULTAR_TECNICO_ESPECIALIZADO"
                     ELSE diagnostico_original
      sesion_id == Len(historial_sesiones) + 1
      nueva_sesion ==
        [ id |-> sesion_id,
          sintomas |-> sintomas,
          diagnostico_original |->
            diagnostico_a_guardar(diagnostico_original, diagnostico_accion_final),
          diagnostico_sugerido |-> diagnostico_accion_final,
          justificacion_regla |-> resultado_reglas.justificacion_regla,
          detalles_reglas |-> recomendaciones_reglas,
          alerta_ia_data |-> alerta_ia_data,
          resultado |-> PENDIENTE ]
  IN  /\ historial_sesiones' = Append(historial_sesiones, nueva_sesion)
      /\ peticion' = [ op |-> "diagnosticar", sintomas |-> sintomas ]
      /\ respuesta' =
           [ estado |-> 200,
             sesion_id |-> sesion_id,
             diagnostico_principal |-> diagnostico_original,
             diagnostico_accion_final |-> diagnostico_accion_final,
             justificacion_regla |-> resultado_reglas.justificacion_regla,
             detalles_recomendaciones |-> recomendaciones_finales,
             alerta_ia_data |-> alerta_ia_data,
             alerta_ia_activa |-> ia_activa ]

\* Variant: feedback is also accepted on a session that had failed.
admite_feedback_no_exitoso(sesion) == sesion.resultado # EXITOSO

\* Variant: feedback overwrites whatever outcome the session has.
admite_feedback_siempre(sesion) == TRUE

\* if sesion["resultado"] == "PENDIENTE"
admite_feedback(sesion) == sesion.resultado = PENDIENTE

\* Variant: the loop does not compare the session id.
sesion_a_actualizar_sin_id(sesion_id) ==
  LET candidatas == { i \in 1..Len(historial_sesiones) :
                        admite_feedback(historial_sesiones[i]) }
  IN  IF candidatas = {} THEN 0
      ELSE CHOOSE i \in candidatas : \A j \in candidatas : i <= j

\* Index of the first session the loop returns from, 0 when it falls through.
sesion_a_actualizar(sesion_id) ==
  LET candidatas == { i \in 1..Len(historial_sesiones) :
                        /\ historial_sesiones[i].id = sesion_id
                        /\ admite_feedback(historial_sesiones[i]) }
  IN  IF candidatas = {} THEN 0
      ELSE CHOOSE i \in candidatas : \A j \in candidatas : i <= j

\* Variant: recording the feedback also resets the session's stored alert.
registrar_feedback_reinicia_alerta(sesion_id, resultado_entrada) ==
  LET resultado == upper(resultado_entrada)
      i == sesion_a_actualizar(sesion_id)
  IN  /\ peticion' = [ op |-> "feedback", sesion_id |-> sesion_id,
                       resultado |-> resultado_entrada ]
      /\ IF i # 0
           THEN /\ historial_sesiones' =
                     [ historial_sesiones EXCEPT
                         ![i].resultado = resultado,
                         ![i].alerta_ia_data = [ alerta_activa |-> FALSE, conteo |-> 0 ] ]
                /\ respuesta' = [ estado |-> 200, sesion_id |-> sesion_id,
                                  resultado |-> resultado ]
           ELSE /\ historial_sesiones' = historial_sesiones
                /\ respuesta' = [ estado |-> 404, sesion_id |-> sesion_id ]

registrar_feedback(sesion_id, resultado_entrada) ==
  LET resultado == upper(resultado_entrada)
      i == sesion_a_actualizar(sesion_id)
  IN  /\ peticion' = [ op |-> "feedback", sesion_id |-> sesion_id,
                       resultado |-> resultado_entrada ]
      /\ IF i # 0
           THEN /\ historial_sesiones' =
                     [ historial_sesiones EXCEPT ![i].resultado = resultado ]
                /\ respuesta' = [ estado |-> 200, sesion_id |-> sesion_id,
                                  resultado |-> resultado ]
           ELSE /\ historial_sesiones' = historial_sesiones
                /\ respuesta' = [ estado |-> 404, sesion_id |-> sesion_id ]

(* --------------------------- specifications --------------------------- *)

\* Symptom vectors submitted in Spec: two that reach rule 3 with different
\* active-flag sets.
Entradas ==
  { Vector({"app_cierra_inesperadamente"}),
    Vector({"app_cierra_inesperadamente", "periferico_no_detectado"}) }

\* Outcome strings submitted as feedback in Spec: the two outcomes of the
\* feedback endpoint's documentation, in mixed and lower case.
ResultadosValidos ==
  { << "F", "a", "l", "l", "i", "d", "o" >>,
    << "e", "x", "i", "t", "o", "s", "o" >> }

\* Outcome strings submitted as feedback in SpecEntradas: the parameter is
\* any string.
ResultadosEntrada ==
  ResultadosValidos \cup
    { << "o", "t", "r", "o" >>,
      << "p", "e", "n", "d", "i", "e", "n", "t", "e" >> }

\* Session ids submitted as feedback: every id issued and one never issued.
IdsEntrada == 1..(Len(historial_sesiones) + 1)

Init ==
  /\ historial_sesiones = << >>
  /\ peticion = [ op |-> "ninguna" ]
  /\ respuesta = [ estado |-> 0 ]
  /\ en_curso = {}

\* Spec: long histories of a few symptom vectors with documented feedback.
Diagnosticar ==
  /\ Len(historial_sesiones) < MaxSesiones
  /\ \E sintomas \in Entradas : diagnosticar_problema(sintomas)
  /\ UNCHANGED en_curso

Feedback ==
  /\ \E sesion_id \in IdsEntrada, resultado \in ResultadosValidos :
       registrar_feedback(sesion_id, resultado)
  /\ UNCHANGED en_curso

Next == Diagnosticar \/ Feedback

Spec == Init /\ [][Next]_vars

\* SpecEntradas: short histories of every symptom vector with any feedback.
DiagnosticarCualquiera ==
  /\ Len(historial_sesiones) < MaxSesionesEntradas
  /\ \E sintomas \in Sintomas : diagnosticar_problema(sintomas)
  /\ UNCHANGED en_curso

FeedbackCualquiera ==
  /\ \E sesion_id \in IdsEntrada, resultado \in ResultadosEntrada :
       registrar_feedback(sesion_id, resultado)
  /\ UNCHANGED en_curso

NextEntradas == DiagnosticarCualquiera \/ FeedbackCualquiera

SpecEntradas == Init /\ [][NextEntradas]_vars

\* SpecConcurrente: feedback requests are accepted by the server (en_curso)
\* and run later, in any order. The handler has no await, so the event loop
\* runs each accepted request to completion before it starts another.
\* A request records whether its session was PENDIENTE when it was accepted,
\* the status it was answered with (0 while waiting) and the order of the
\* answers.
SesionPendiente(sesion_id) ==
  \E i \in 1..Len(historial_sesiones) :
    /\ historial_sesiones[i].id = sesion_id
    /\ historial_sesiones[i].resultado = PENDIENTE

Atendidas == { r \in en_curso : r.estado # 0 }

DiagnosticarConcurrente ==
  /\ Len(historial_sesiones) < MaxSesionesConcurrente
  /\ \E sintomas \in Entradas : diagnosticar_problema(sintomas)
  /\ UNCHANGED en_curso

\* Session ids of the accepted requests: every id issued and 0, which is
\* never issued. (A uuid4 cannot be named before it is issued, so a waiting
\* request never holds the id of a session created later.)
IdsEnCurso == 0..Len(historial_sesiones)

Recibir ==
  /\ Cardinality(en_curso) < MaxEnCurso
  /\ \E sesion_id \in IdsEnCurso, resultado \in ResultadosValidos :
       en_curso' = en_curso \cup
         { [ sesion_id |-> sesion_id, resultado |-> resultado,
             pendiente |-> SesionPendiente(sesion_id),
             estado |-> 0, orden |-> 0 ] }
  /\ UNCHANGED <<historial_sesiones, peticion, respuesta>>

Atender ==
  \E r \in en_curso :
    /\ r.estado = 0
    /\ registrar_feedback(r.sesion_id, r.resultado)
    /\ en_curso' = (en_curso \ {r}) \cup
         { [ r EXCEPT !.estado = respuesta'.estado,
                      !.orden = Cardinality(Atendidas) + 1 ] }

NextConcurrente == DiagnosticarConcurrente \/ Recibir \/ Atender

SpecConcurrente == Init /\ [][NextConcurrente]_vars

(* ------------------------------- claims ------------------------------- *)

\* The set of true flags of a symptom vector.
ActivosSet(v) == { k \in CamposSet : v[k] }

\* After a diagnose request the new session is the last one of the history;
\* the sessions before it are the history the request was answered from.
TrasDiagnosticar == peticion.op = "diagnosticar"

SesionNueva == historial_sesiones[Len(historial_sesiones)]

Previas == 1..(Len(historial_sesiones) - 1)

\* Earlier FAILED sessions with exactly the flag set of v.
FallidasIguales(v) ==
  { i \in Previas :
      /\ ActivosSet(historial_sesiones[i].sintomas) = ActivosSet(v)
      /\ historial_sesiones[i].resultado = FALLIDO }

\* Earlier FAILED sessions with the flag set of v and the diagnosis of v.
Precedentes(v) ==
  { i \in FallidasIguales(v) :
      historial_sesiones[i].diagnostico_original
        = motor_reglas(v).diagnostico_principal }

Terminales == { EXITOSO, FALLIDO }

\* C1: a diagnose call reports the alert triggered if and only if at least 2
\* earlier sessions have the same set of true flags, the same original
\* diagnosis and outcome FAILED; with exactly two the count is 2, with
\* exactly one the alert is not triggered.
C1_AlertaSiYSoloSiDosFallas ==
  TrasDiagnosticar =>
    LET n == Cardinality(Precedentes(peticion.sintomas))
        alerta == respuesta.alerta_ia_data
    IN  /\ alerta.alerta_activa <=> n >= 2
        /\ respuesta.alerta_ia_activa = alerta.alerta_activa
        /\ n = 2 => alerta.conteo = 2
        /\ n = 1 => ~alerta.alerta_activa

C1_Witness ==
  /\ TrasDiagnosticar
  /\ Cardinality(Precedentes(peticion.sintomas)) = 2
  /\ respuesta.alerta_ia_data.alerta_activa
  /\ respuesta.alerta_ia_data.conteo = 2

\* C2: the outcome of a session changes at most once: feedback on a PENDING
\* session sets it to the submitted value, and no step changes an outcome
\* that is no longer PENDING, in particular SUCCEEDED or FAILED.
C2_ResultadoCambiaUnaVez ==
  [][ \A i \in 1..Len(historial_sesiones) :
        LET antes == historial_sesiones[i].resultado
            despues == historial_sesiones'[i].resultado
        IN  /\ i <= Len(historial_sesiones')
            /\ antes \in Terminales => despues = antes
            /\ despues # antes => antes = PENDIENTE /\ despues # PENDIENTE
            /\ ( /\ peticion'.op = "feedback"
                 /\ peticion'.sesion_id = historial_sesiones[i].id
                 /\ antes = PENDIENTE
                 /\ upper(peticion'.resultado) \in Terminales )
               => despues = upper(peticion'.resultado)
    ]_vars

\* A second feedback, with the other outcome, for a session already terminal.
C2_Witness ==
  /\ peticion.op = "feedback"
  /\ upper(peticion.resultado) \in Terminales
  /\ \E i \in 1..Len(historial_sesiones) :
       /\ historial_sesiones[i].id = peticion.sesion_id
       /\ historial_sesiones[i].resultado \in Terminales
       /\ historial_sesiones[i].resultado # upper(peticion.resultado)

\* The rule table of the specification, by priority.
CondicionTabla(r, A) ==
  CASE r = 1 -> /\ "pantalla_azul_o_negra_reciente" \in A
                /\ A \cap { "app_cierra_inesperadamente",
                            "instalacion_o_actualizacion_fallida" } # {}
    [] r = 2 -> /\ A \cap { "app_lenta_o_congela",
                            "app_cierra_inesperadamente" } # {}
                /\ "instalacion_o_actualizacion_fallida" \in A
    [] r = 3 -> "app_cierra_inesperadamente" \in A
    [] r = 4 -> "instalacion_o_actualizacion_fallida" \in A
    [] r = 5 -> "app_lenta_o_congela" \in A
    [] r = 6 -> "periferico_no_detectado" \in A

CodigoTabla ==
  << "CORRUPCION_SISTEMA_CRITICA", "CONFLICTO_DE_SOFTWARE_O_LIBRERIAS",
     "REINSTALAR_APLICACION_LIMPIANDO_CACHE", "REINTENTAR_COMO_ADMINISTRADOR",
     "FINALIZAR_TAREA_Y_REINICIAR_APP", "ACTUALIZAR_DRIVER_O_PUERTO" >>

\* C3: the diagnosis is the code of the first rule of the table, in priority
\* order 1 to 6, whose condition holds; critical failure with app crash is
\* always CORRUPCION_SISTEMA_CRITICA, and app crash with failed install and
\* no critical failure is CONFLICTO_DE_SOFTWARE_O_LIBRERIAS.
C3_PrimeraReglaGana ==
  TrasDiagnosticar =>
    LET A == ActivosSet(peticion.sintomas)
        d == respuesta.diagnostico_principal
    IN  /\ \A r \in 1..6 :
             ( CondicionTabla(r, A) /\ \A q \in 1..(r - 1) : ~CondicionTabla(q, A) )
               => d = CodigoTabla[r]
        /\ { "pantalla_azul_o_negra_reciente", "app_cierra_inesperadamente" } \subseteq A
             => d = "CORRUPCION_SISTEMA_CRITICA"
        /\ ( /\ { "app_cierra_inesperadamente",
                  "instalacion_o_actualizacion_fallida" } \subseteq A
             /\ "pantalla_azul_o_negra_reciente" \notin A )
             => d = "CONFLICTO_DE_SOFTWARE_O_LIBRERIAS"

C3_Witness ==
  /\ TrasDiagnosticar
  /\ ActivosSet(peticion.sintomas)
       = { "app_cierra_inesperadamente", "instalacion_o_actualizacion_fallida",
           "periferico_no_detectado" }
  /\ respuesta.diagnostico_principal = "CONFLICTO_DE_SOFTWARE_O_LIBRERIAS"

\* C4: when the alert is triggered the returned steps are the single
\* escalation message, the session's suggested diagnosis is the escalation
\* code, and the stored original diagnosis and the response's diagnosis are
\* the rule engine's; when it is not triggered the suggested diagnosis is
\* the original one.
C4_EscalamientoConservaOriginal ==
  TrasDiagnosticar =>
    LET original == motor_reglas(peticion.sintomas).diagnostico_principal
    IN  /\ respuesta.alerta_ia_data.alerta_activa =>
             /\ respuesta.detalles_recomendaciones
                  = << << "Contactarse con un técnico especializado" >> >>
             /\ SesionNueva.diagnostico_sugerido = "CONSULTAR_TECNICO_ESPECIALIZADO"
             /\ SesionNueva.diagnostico_original = original
             /\ respuesta.diagnostico_principal = original
        /\ ~respuesta.alerta_ia_data.alerta_activa =>
             SesionNueva.diagnostico_sugerido = SesionNueva.diagnostico_original

C4_Witness ==
  /\ TrasDiagnosticar
  /\ respuesta.alerta_ia_data.alerta_activa
  /\ SesionNueva.diagnostico_sugerido = "CONSULTAR_TECNICO_ESPECIALIZADO"
  /\ SesionNueva.diagnostico_original = "REINSTALAR_APLICACION_LIMPIANDO_CACHE"

\* C5: escalated sessions that failed still count as precedents: with k >= 2
\* earlier FAILED sessions for the same flag set, the diagnose is triggered
\* with a count of k.
C5_EscaladasCuentan ==
  TrasDiagnosticar =>
    LET k == Cardinality(FallidasIguales(peticion.sintomas))
    IN  k >= 2 => /\ respuesta.alerta_ia_data.alerta_activa
                  /\ respuesta.alerta_ia_data.conteo = k

\* Three failed precedents, one of which had itself been escalated.
C5_Witness ==
  /\ TrasDiagnosticar
  /\ respuesta.alerta_ia_data.conteo = 3
  /\ \E i \in FallidasIguales(peticion.sintomas) :
       historial_sesiones[i].diagnostico_sugerido = "CONSULTAR_TECNICO_ESPECIALIZADO"

\* Earlier FAILED sessions with the diagnosis of v whose flag set is a strict
\* subset or a strict superset of that of v.
FallidasParecidas(v) ==
  { i \in Previas :
      LET B == ActivosSet(historial_sesiones[i].sintomas)
      IN  /\ B # ActivosSet(v)
          /\ B \subseteq ActivosSet(v) \/ ActivosSet(v) \subseteq B
          /\ historial_sesiones[i].diagnostico_original
               = motor_reglas(v).diagnostico_principal
          /\ historial_sesiones[i].resultado = FALLIDO }

\* C6: only FAILED sessions with exactly the query's set of true flags
\* contribute to the failure count; a session with a different flag set does
\* not, even with the same diagnosis.
C6_ComparacionExacta ==
  TrasDiagnosticar =>
    LET n == Cardinality(FallidasIguales(peticion.sintomas))
    IN  /\ respuesta.alerta_ia_data.conteo <= n
        /\ respuesta.alerta_ia_data.alerta_activa => n >= 2

\* Two failed sessions with the same diagnosis and a sub/superset of the
\* query's flags, and the query is not escalated.
C6_Witness ==
  /\ TrasDiagnosticar
  /\ Cardinality(FallidasParecidas(peticion.sintomas)) >= 2
  /\ ~respuesta.alerta_ia_data.alerta_activa
  /\ respuesta.alerta_ia_data.conteo = 0

\* The end-to-end scenario: four diagnoses of {app_cierra_inesperadamente},
\* the first three with FAILED feedback, the third made after the first two
\* had failed, and the fourth just answered.
EscenarioCuatroDiagnosticos ==
  /\ TrasDiagnosticar
  /\ Len(historial_sesiones) = 4
  /\ \A i \in 1..4 :
       ActivosSet(historial_sesiones[i].sintomas) = { "app_cierra_inesperadamente" }
  /\ \A i \in 1..3 : historial_sesiones[i].resultado = FALLIDO
  /\ historial_sesiones[3].alerta_ia_data.alerta_activa

\* C7 as stated: from an empty history, the first diagnose of {app_crash} is
\* not triggered, and after three diagnoses each followed by FAILED feedback
\* the fourth reports triggered with a failure count of 2 and the escalation
\* message only.
C7_CuartoDiagnosticoCuentaDos ==
  EscenarioCuatroDiagnosticos =>
    /\ ~historial_sesiones[1].alerta_ia_data.alerta_activa
    /\ respuesta.alerta_ia_data.alerta_activa
    /\ respuesta.alerta_ia_data.conteo = 2
    /\ respuesta.detalles_recomendaciones
         = << << "Contactarse con un técnico especializado" >> >>

\* C7 amended: in that scenario the fourth diagnose reports triggered with a
\* failure count of 3 (the third one reported 2) and the escalation message
\* only; the first diagnose is not triggered.
C7_CuartoDiagnosticoCuentaTres ==
  EscenarioCuatroDiagnosticos =>
    /\ ~historial_sesiones[1].alerta_ia_data.alerta_activa
    /\ historial_sesiones[3].alerta_ia_data.conteo = 2
    /\ respuesta.alerta_ia_data.alerta_activa
    /\ respuesta.alerta_ia_data.conteo = 3
    /\ respuesta.detalles_recomendaciones
         = << << "Contactarse con un técnico especializado" >> >>

C7_Witness ==
  /\ EscenarioCuatroDiagnosticos
  /\ respuesta.alerta_ia_data.conteo = 3
  /\ respuesta.sesion_id = 4

\* C8 as stated: the fallback diagnosis REINICIAR_SISTEMA_SIMPLE is returned
\* for the all-false vector and only for it; every vector with a true flag
\* gets the code of one of the rules 1 to 6.
C8_RespaldoSoloSinSintomas ==
  TrasDiagnosticar =>
    LET A == ActivosSet(peticion.sintomas)
        d == respuesta.diagnostico_principal
    IN  /\ d = "REINICIAR_SISTEMA_SIMPLE" <=> A = {}
        /\ A # {} => \E r \in 1..6 : d = CodigoTabla[r]

\* C9 as stated: feedback whose outcome, once upper-cased, is neither EXITOSO
\* nor FALLIDO never returns success and leaves every session unchanged.
C9_ResultadoInvalidoRechazado ==
  [][ ( /\ peticion'.op = "feedback"
        /\ upper(peticion'.resultado) \notin Terminales )
      => /\ respuesta'.estado # 200
         /\ historial_sesiones' = historial_sesiones
    ]_vars

\* C10 as stated: every session's outcome is PENDIENTE, EXITOSO or FALLIDO,
\* and a feedback that returns success leaves its session EXITOSO or FALLIDO.
C10_ResultadoEnElEnum ==
  /\ \A i \in 1..Len(historial_sesiones) :
       historial_sesiones[i].resultado \in { PENDIENTE, EXITOSO, FALLIDO }
  /\ ( peticion.op = "feedback" /\ respuesta.estado = 200 ) =>
       \A i \in 1..Len(historial_sesiones) :
         historial_sesiones[i].id = peticion.sesion_id
           => historial_sesiones[i].resultado \in Terminales

\* The session ids present in the history.
IdsRegistrados ==
  { historial_sesiones[i].id : i \in 1..Len(historial_sesiones) }

\* C11: feedback for an id that matches no session fails with not found
\* (404) and leaves the whole history unchanged.
C11_IdDesconocidoNoEncontrado ==
  [][ ( /\ peticion'.op = "feedback"
        /\ peticion'.sesion_id \notin IdsRegistrados )
      => /\ respuesta'.estado = 404
         /\ historial_sesiones' = historial_sesiones
    ]_vars

\* An unknown id was answered while a PENDING session was in the history.
C11_Witness ==
  /\ peticion.op = "feedback"
  /\ peticion.sesion_id \notin IdsRegistrados
  /\ respuesta.estado = 404
  /\ \E i \in 1..Len(historial_sesiones) :
       historial_sesiones[i].resultado = PENDIENTE

\* C12 as stated: not found is reported only for ids that match no session;
\* feedback for an existing session that is already terminal is not
\* answered with not found.
C12_NoEncontradoSoloDesconocidos ==
  ( peticion.op = "feedback" /\ respuesta.estado = 404 )
    => peticion.sesion_id \notin IdsRegistrados

\* C14: the history only grows and sessions are immutable but for the
\* outcome: diagnose appends one PENDING session and changes no other;
\* feedback keeps the number of sessions and changes at most the outcome of
\* the session with the given id.
C14_SoloCreceYSoloCambiaResultado ==
  [][ /\ Len(historial_sesiones') >= Len(historial_sesiones)
      /\ peticion'.op = "diagnosticar" =>
           /\ Len(historial_sesiones') = Len(historial_sesiones) + 1
           /\ historial_sesiones'[Len(historial_sesiones')].resultado = PENDIENTE
           /\ SubSeq(historial_sesiones', 1, Len(historial_sesiones))
                = historial_sesiones
      /\ peticion'.op = "feedback" =>
           /\ Len(historial_sesiones') = Len(historial_sesiones)
           /\ \A i \in 1..Len(historial_sesiones) :
                /\ historial_sesiones'[i]
                     = [ historial_sesiones[i] EXCEPT
                           !.resultado = historial_sesiones'[i].resultado ]
                /\ historial_sesiones[i].id # peticion'.sesion_id
                     => historial_sesiones'[i] = historial_sesiones[i]
    ]_vars

\* Feedback was recorded on an escalated session among several.
C14_Witness ==
  /\ peticion.op = "feedback"
  /\ respuesta.estado = 200
  /\ Len(historial_sesiones) >= 3
  /\ \E i \in 1..Len(historial_sesiones) :
       /\ historial_sesiones[i].id = peticion.sesion_id
       /\ historial_sesiones[i].alerta_ia_data.alerta_activa
       /\ historial_sesiones[i].resultado = upper(peticion.resultado)

\* A line that begins with the label 'Diagnóstico'.
EsLineaResumen(linea) == startswith(linea, << "Diagnóstico" >>)

\* The codes of the rules r with r \in R.
CodigosDe(R) == { CodigoTabla[r] : r \in R }

\* C15 as stated: when the alert is not triggered the returned steps are the
\* rule engine's steps, in order, without any diagnosis-summary line (a line
\* beginning with 'Diagnóstico') and with no action step dropped.
C15_PasosSinResumen ==
  ( TrasDiagnosticar /\ ~respuesta.alerta_ia_data.alerta_activa ) =>
    LET pasos == motor_reglas(peticion.sintomas).detalles_recomendaciones
    IN  respuesta.detalles_recomendaciones
          = SelectSeq(pasos, LAMBDA linea : ~EsLineaResumen(linea))

\* C16 as stated: the engine's steps start with a 'Diagnóstico:' line for
\* rules 3 to 6 only, and the caller's stripping removes an element for
\* rules 3 to 6 only.
C16_ResumenSoloReglas3a6 ==
  ( TrasDiagnosticar /\ ~respuesta.alerta_ia_data.alerta_activa ) =>
    LET pasos == SesionNueva.detalles_reglas
        d == respuesta.diagnostico_principal
    IN  /\ startswith(pasos[1], PrefijoDiagnostico) <=> d \in CodigosDe(3..6)
        /\ respuesta.detalles_recomendaciones # pasos <=> d \in CodigosDe(3..6)

\* C16 amended: the engine's steps start with a 'Diagnóstico:' line for
\* rules 2 to 6, and not for rule 1 or the fallback; the caller's stripping
\* removes exactly that first element for rules 2 to 6 and nothing otherwise.
C16_ResumenReglas2a6 ==
  ( TrasDiagnosticar /\ ~respuesta.alerta_ia_data.alerta_activa ) =>
    LET pasos == SesionNueva.detalles_reglas
        d == respuesta.diagnostico_principal
    IN  /\ startswith(pasos[1], PrefijoDiagnostico) <=> d \in CodigosDe(2..6)
        /\ d \in CodigosDe(2..6) =>
             respuesta.detalles_recomendaciones = Tail(pasos)
        /\ d \notin CodigosDe(2..6) =>
             respuesta.detalles_recomendaciones = pasos

\* A rule-2 diagnosis whose 'Diagnóstico:' line was stripped.
C16_Witness ==
  /\ TrasDiagnosticar
  /\ respuesta.diagnostico_principal = "CONFLICTO_DE_SOFTWARE_O_LIBRERIAS"
  /\ Len(respuesta.detalles_recomendaciones) = 2
  /\ Len(SesionNueva.detalles_reglas) = 3

\* C17: escalation is sticky. Every session stores the alert its diagnose
\* call reported; once a diagnose of a flag set was triggered, every later
\* diagnose of the same flag set is triggered with a count at least as
\* large, whatever feedback came in between.
C17_EscalamientoPermanente ==
  /\ TrasDiagnosticar => SesionNueva.alerta_ia_data = respuesta.alerta_ia_data
  /\ \A i, j \in 1..Len(historial_sesiones) :
       ( /\ i < j
         /\ ActivosSet(historial_sesiones[i].sintomas)
              = ActivosSet(historial_sesiones[j].sintomas)
         /\ historial_sesiones[i].alerta_ia_data.alerta_activa )
       => /\ historial_sesiones[j].alerta_ia_data.alerta_activa
          /\ historial_sesiones[j].alerta_ia_data.conteo
               >= historial_sesiones[i].alerta_ia_data.conteo

\* An escalated session got SUCCEEDED feedback and the next diagnose of the
\* same flag set is escalated again.
C17_Witness ==
  /\ TrasDiagnosticar
  /\ respuesta.alerta_ia_data.alerta_activa
  /\ \E i \in Previas :
       /\ ActivosSet(historial_sesiones[i].sintomas) = ActivosSet(peticion.sintomas)
       /\ historial_sesiones[i].alerta_ia_data.alerta_activa
       /\ historial_sesiones[i].resultado = EXITOSO

\* C18: every session's stored original diagnosis is the rule engine's
\* diagnosis of its stored symptom vector, so sessions with the same flag
\* set have the same original diagnosis and the diagnosis test of the scan
\* excludes no session whose flag set matches the query.
C18_OriginalEsElDeLasReglas ==
  /\ \A i \in 1..Len(historial_sesiones) :
       historial_sesiones[i].diagnostico_original
         = motor_reglas(historial_sesiones[i].sintomas).diagnostico_principal
  /\ \A i, j \in 1..Len(historial_sesiones) :
       ActivosSet(historial_sesiones[i].sintomas)
         = ActivosSet(historial_sesiones[j].sintomas)
       => historial_sesiones[i].diagnostico_original
            = historial_sesiones[j].diagnostico_original
  /\ TrasDiagnosticar =>
       Precedentes(peticion.sintomas) = FallidasIguales(peticion.sintomas)

\* Two sessions of one flag set, one escalated and one not.
C18_Witness ==
  \E i, j \in 1..Len(historial_sesiones) :
    /\ ActivosSet(historial_sesiones[i].sintomas)
         = ActivosSet(historial_sesiones[j].sintomas)
    /\ historial_sesiones[i].diagnostico_sugerido = "CONSULTAR_TECNICO_ESPECIALIZADO"
    /\ historial_sesiones[j].diagnostico_sugerido = historial_sesiones[j].diagnostico_original
    /\ historial_sesiones[i].diagnostico_original = historial_sesiones[j].diagnostico_original

\* The alert is well formed: triggered with a count of at least 2, or not
\* triggered with a count of 0.
AlertaBienFormada(alerta) ==
  /\ alerta.alerta_activa <=> alerta.conteo >= 2
  /\ ~alerta.alerta_activa <=> alerta.conteo = 0
  /\ alerta.conteo # 1

\* C19: in every response and every stored session the alert is triggered
\* exactly when its count is at least 2 and not triggered exactly when its
\* count is 0; a count of 1 is never reported: with exactly one matching
\* FAILED session the alert reports 0.
C19_ConteoNuncaUno ==
  /\ \A i \in 1..Len(historial_sesiones) :
       AlertaBienFormada(historial_sesiones[i].alerta_ia_data)
  /\ TrasDiagnosticar =>
       /\ AlertaBienFormada(respuesta.alerta_ia_data)
       /\ Cardinality(Precedentes(peticion.sintomas)) = 1
            => respuesta.alerta_ia_data.conteo = 0

C19_Witness ==
  /\ TrasDiagnosticar
  /\ Cardinality(Precedentes(peticion.sintomas)) = 1
  /\ respuesta.alerta_ia_data.conteo = 0
  /\ ~respuesta.alerta_ia_activa

\* The answered requests for a session that was PENDING when they arrived.
AtendidasDe(sesion_id) ==
  { r \in Atendidas : r.sesion_id = sesion_id /\ r.pendiente }

\* C13: of the feedback requests accepted for a session while it was
\* PENDING and handled concurrently, exactly one takes effect and returns
\* success: the first one handled; every other one is answered 404 and
\* leaves the session as the first one wrote it.
C13_UnaSolaTransicion ==
  \A i \in 1..Len(historial_sesiones) :
    LET R == AtendidasDe(historial_sesiones[i].id)
    IN  R # {} =>
          \E g \in R :
            /\ g.estado = 200
            /\ \A r \in R \ {g} : r.estado = 404 /\ r.orden > g.orden
            /\ historial_sesiones[i].resultado = upper(g.resultado)

\* Two requests with different outcomes raced on a PENDING session.
C13_Witness ==
  \E a, b \in en_curso :
    /\ a.sesion_id = b.sesion_id
    /\ a.pendiente /\ b.pendiente
    /\ upper(a.resultado) # upper(b.resultado)
    /\ a.estado = 200 /\ b.estado = 404
    /\ a.orden = 1 /\ b.orden = 2

====
